---------------------------- MODULE Spec2Model ----------------------------
(***************************************************************************)
(* State-machine model of the interactive presentation tool: the App       *)
(* component (src/App.tsx), its per-slide Canvas components                 *)
(* (src/components/Canvas.tsx), the Toolbar and the keyboard shortcuts.     *)
(*                                                                         *)
(* React semantics used throughout:                                        *)
(*  - an event handler (or a timer continuation) reads the values of the   *)
(*    last render through its closure and queues state updates; functional *)
(*    updates (setX(prev => ...)) apply to the queued state in order;       *)
(*  - after the handler the component re-renders and every effect whose    *)
(*    dependency list changed runs (all cleanups first, then the bodies in *)
(*    declaration order); updates queued by effects cause a further render *)
(*    until no dependency changes.  One event, with the renders and the    *)
(*    effects it causes, is one atomic action of the model;                *)
(*  - `await sleep(ms)` suspends the replay loop: the loop's closure is    *)
(*    kept in `loops` with the delay boundary it waits at, and TimerFire   *)
(*    resumes it.  Delays are not measured: a pending timer fires at any   *)
(*    later moment.                                                        *)
(*                                                                         *)
(* Numbers: slide indices and step indices are 0-based as in the source    *)
(* (sequence element k is seq[k+1]).  Pointer coordinates are whole        *)
(* pixels.  A transform's scale, x and y are exact rationals stored as     *)
(* integer multiples of 1/Unit (the source uses IEEE doubles; rounding is  *)
(* not modelled).  null is the record NoSpotlight / NoCursor.              *)
(***************************************************************************)
EXTENDS Integers, Sequences, FiniteSets, TLC

\* ------------------------------------------------------------ bounds
MaxSlides == 2
MaxRecords == 2
MaxZoom == 1
MaxLoops == 2
MaxDeepZoom == 2

\* ------------------------------------------------------------ constants
CIRCLE_RADIUS == 60
DRAG_THRESHOLD == 10
ZOOM_NUM == 3
ZOOM_DEN == 2
ContainerW == 20
ContainerH == 20

RECURSIVE Pow(_, _)
Pow(b, n) == IF n = 0 THEN 1 ELSE b * Pow(b, n - 1)

\* transform components are stored multiplied by Unit
Unit == Pow(ZOOM_DEN, MaxDeepZoom)

\* pointer positions the environment delivers (container pixels)
Points == { <<0, 0>>, <<10, 10>> }
MediaTypes == { "image" }
Tools == { "none", "pan_zoom", "spotlight" }

\* ------------------------------------------------------------ data
INITIAL_TRANSFORM == [scale |-> Unit, x |-> 0, y |-> 0]

NoSpotlight == [type |-> "none", x |-> 0, y |-> 0, width |-> 0, height |-> 0, radius |-> 0]

NoCursor == [set |-> FALSE, x |-> 0, y |-> 0, slideIndex |-> 0]

createEmptySlide == [mediaUrl |-> "null", mediaType |-> "null",
                     transform |-> INITIAL_TRANSFORM, spotlight |-> NoSpotlight]

\* a freshly mounted Canvas: useState(false), useState({x: 0, y: 0})
NewCanvas == [isDragging |-> FALSE, dragStart |-> <<0, 0>>]

\* {...a, ...b}: the fields of b override those of a
Merge(a, b) == [f \in DOMAIN a |-> IF f \in DOMAIN b THEN b[f] ELSE a[f]]

RemoveAt(s, k) == [j \in 1..(Len(s) - 1) |-> IF j < k THEN s[j] ELSE s[j + 1]]

Min(a, b) == IF a < b THEN a ELSE b
Max(a, b) == IF a > b THEN a ELSE b
Abs(a) == IF a < 0 THEN -a ELSE a

VARIABLES activeTool, isCapturing, slides, currentSlideIndex, clickSequence,
          isPlaying, isStepping, currentStep, replayCursor,
          canvas, loops, last, applied, runClean

vars == <<activeTool, isCapturing, slides, currentSlideIndex, clickSequence,
          isPlaying, isStepping, currentStep, replayCursor,
          canvas, loops, last, applied, runClean>>

\* the App component's state (and the pending replay-loop closures) as one value
App == [activeTool |-> activeTool, isCapturing |-> isCapturing, slides |-> slides,
        currentSlideIndex |-> currentSlideIndex, clickSequence |-> clickSequence,
        isPlaying |-> isPlaying, isStepping |-> isStepping,
        currentStep |-> currentStep, replayCursor |-> replayCursor,
        loops |-> loops]

\* ------------------------------------------------------------ App.tsx handlers
\* Each handler maps r, the state of the render its closure was created in,
\* to the state after its queued updates.

resetSlides(ss) ==
    [j \in 1..Len(ss) |-> Merge(ss[j], [transform |-> INITIAL_TRANSFORM,
                                        spotlight |-> NoSpotlight])]

\* faulty variant: an index past the end updates the last slide
updateSlideState_Clamped(s, slideIndex, updates) ==
    IF slideIndex + 1 \in 1..Len(s.slides)
    THEN [s EXCEPT !.slides[slideIndex + 1] = Merge(@, updates)]
    ELSE IF slideIndex >= Len(s.slides)
         THEN [s EXCEPT !.slides[Len(s.slides)] = Merge(@, updates)]
         ELSE s

\* faulty variant: the slide is rebuilt from the partial alone
updateSlideState_Replace(s, slideIndex, updates) ==
    IF slideIndex + 1 \in 1..Len(s.slides)
    THEN [s EXCEPT !.slides[slideIndex + 1] = Merge(createEmptySlide, updates)]
    ELSE s

updateSlideState(s, slideIndex, updates) ==
    IF slideIndex + 1 \in 1..Len(s.slides)
    THEN [s EXCEPT !.slides[slideIndex + 1] = Merge(@, updates)]
    ELSE s

addSlide(r) ==
    [r EXCEPT !.slides = Append(@, createEmptySlide),
              !.currentSlideIndex = Len(r.slides)]

\* faulty variant: the next-slide step is not clamped to the last slide
goToNextSlide_NoClamp(r) ==
    IF r.isPlaying THEN r
    ELSE [r EXCEPT !.currentSlideIndex = @ + 1]

goToNextSlide(r) ==
    IF r.isPlaying THEN r
    ELSE [r EXCEPT !.currentSlideIndex = Min(@ + 1, Len(r.slides) - 1)]

goToPrevSlide(r) ==
    IF r.isPlaying THEN r
    ELSE [r EXCEPT !.currentSlideIndex = Max(@ - 1, 0)]

toggleCapture(r) == [r EXCEPT !.isCapturing = ~@]

handleFileForSlide(r, slideIndex, type) ==
    updateSlideState(r, slideIndex, [mediaUrl |-> "blob", mediaType |-> type])

\* faulty variant: the capture-mode test is lost
handleRecordClick_Always(r, s, x, y, transform, spotlight) ==
    [s EXCEPT !.clickSequence =
        Append(@, [slideIndex |-> r.currentSlideIndex, x |-> x, y |-> y,
                   toolState |-> [transform |-> transform,
                                  spotlight |-> spotlight]])]

\* faulty variant: the new record replaces the sequence
handleRecordClick_Overwrite(r, s, x, y, transform, spotlight) ==
    IF ~r.isCapturing THEN s
    ELSE [s EXCEPT !.clickSequence =
             <<[slideIndex |-> r.currentSlideIndex, x |-> x, y |-> y,
                toolState |-> [transform |-> transform,
                               spotlight |-> spotlight]]>>]

\* s is the state queued so far by the calling gesture handler, r its render
handleRecordClick(r, s, x, y, transform, spotlight) ==
    IF ~r.isCapturing THEN s
    ELSE [s EXCEPT !.clickSequence =
             Append(@, [slideIndex |-> r.currentSlideIndex, x |-> x, y |-> y,
                        toolState |-> [transform |-> transform,
                                       spotlight |-> spotlight]])]

\* faulty variant: the start is not guarded
handleReplay_NoGuard(r) == [r EXCEPT !.isPlaying = TRUE]

handleReplay(r) ==
    IF Len(r.clickSequence) > 0 /\ ~r.isPlaying
    THEN [r EXCEPT !.isPlaying = TRUE]
    ELSE r

\* faulty variant: Stepped replay starts without resetting the slides
handleStepReplay_NoReset(r) ==
    IF Len(r.clickSequence) > 0 /\ ~r.isStepping
    THEN [r EXCEPT !.isStepping = TRUE, !.currentStep = 0]
    ELSE r

handleStepReplay(r) ==
    IF Len(r.clickSequence) > 0 /\ ~r.isStepping
    THEN [r EXCEPT !.isStepping = TRUE, !.currentStep = 0,
                   !.slides = resetSlides(@)]
    ELSE r

handleNextStep(r) ==
    IF r.currentStep < Len(r.clickSequence) - 1
    THEN [r EXCEPT !.currentStep = r.currentStep + 1]
    ELSE r

handlePrevStep(r) ==
    IF r.currentStep > 0
    THEN [r EXCEPT !.currentStep = r.currentStep - 1]
    ELSE r

handleExitStepping(r) == [r EXCEPT !.isStepping = FALSE, !.currentStep = 0]

\* faulty variant: the reset keeps the recorded sequence
handleFullReset_KeepRecords(r) ==
    [r EXCEPT !.slides = <<createEmptySlide>>,
              !.currentSlideIndex = 0,
              !.isPlaying = FALSE,
              !.activeTool = "none",
              !.isCapturing = FALSE]

\* faulty variant: the reset flips capture mode instead of clearing it
handleFullReset_FlipCapture(r) ==
    [r EXCEPT !.slides = <<createEmptySlide>>,
              !.currentSlideIndex = 0,
              !.clickSequence = <<>>,
              !.isPlaying = FALSE,
              !.activeTool = "none",
              !.isCapturing = ~@]

\* faulty variant: capture mode survives the reset
handleFullReset_KeepCapture(r) ==
    [r EXCEPT !.slides = <<createEmptySlide>>,
              !.currentSlideIndex = 0,
              !.clickSequence = <<>>,
              !.isPlaying = FALSE,
              !.activeTool = "none"]

handleFullReset(r) ==
    [r EXCEPT !.slides = <<createEmptySlide>>,
              !.currentSlideIndex = 0,
              !.clickSequence = <<>>,
              !.isPlaying = FALSE,
              !.activeTool = "none",
              !.isCapturing = FALSE]


\* ------------------------------------------------------------ App.tsx effects
\* c is the render the effect closes over, s the state queued so far.

steppingEffect(c, s) ==
    IF ~c.isStepping \/ Len(c.clickSequence) = 0 THEN s
    ELSE IF c.currentStep + 1 \notin 1..Len(c.clickSequence) THEN s
    ELSE LET record == c.clickSequence[c.currentStep + 1] IN
         updateSlideState(
            [s EXCEPT !.currentSlideIndex = record.slideIndex,
                      !.replayCursor = [set |-> TRUE, x |-> record.x, y |-> record.y,
                                        slideIndex |-> record.slideIndex]],
            record.slideIndex,
            [transform |-> record.toolState.transform,
             spotlight |-> record.toolState.spotlight])

\* a replay loop started by one run of the replay effect: the closure's
\* isCancelled and step, the clickSequence and currentSlideIndex it captured,
\* and the delay it is suspended at
NewLoop(c) == [isCancelled |-> FALSE, step |-> 0, pc |-> "settle",
               clickSequence |-> c.clickSequence,
               currentSlideIndex |-> c.currentSlideIndex]

\* a cancelled closure: every continuation tests isCancelled before it reads
\* step, clickSequence or currentSlideIndex, so once the flag is set those
\* three are dead and the closure is kept as its flag and its pending delay
Cancelled(l) == [isCancelled |-> TRUE, step |-> 0, pc |-> l.pc,
                 clickSequence |-> <<>>, currentSlideIndex |-> 0]

\* faulty variant: the effect returns no cleanup, so no loop is ever cancelled
replayCleanup_NoCancel(s) == s

\* faulty variant: the cleanup misses the loop of the run it belongs to
replayCleanup_SkipNewest(s) ==
    [s EXCEPT !.loops = [k \in DOMAIN @ |->
                            IF k = Len(@) THEN @[k] ELSE Cancelled(@[k])]]

\* the cleanup returned by the previous run of the replay effect sets that
\* run's isCancelled; every older closure is cancelled already
replayCleanup(s) ==
    [s EXCEPT !.loops = [k \in DOMAIN @ |-> Cancelled(@[k])]]

\* faulty variant: the replay starts without resetting the slides
replayEffect_NoReset(c, s) ==
    IF ~c.isPlaying
    THEN [s EXCEPT !.replayCursor = NoCursor]
    ELSE [s EXCEPT !.loops = Append(@, NewLoop(c))]

replayEffect(c, s) ==
    IF ~c.isPlaying
    THEN [s EXCEPT !.replayCursor = NoCursor]
    ELSE [s EXCEPT !.slides = resetSlides(@),
                   !.loops = Append(@, NewLoop(c))]

steppingDeps(prev, cur, seqChanged) ==
    \/ seqChanged
    \/ prev.isStepping # cur.isStepping
    \/ prev.currentStep # cur.currentStep

replayDeps(prev, cur, seqChanged) ==
    \/ seqChanged
    \/ prev.isPlaying # cur.isPlaying
    \/ prev.currentSlideIndex # cur.currentSlideIndex

\* one commit: cleanups of the effects whose dependencies changed, then their bodies
EffectsPass(prev, cur, seqChanged) ==
    LET s0 == IF replayDeps(prev, cur, seqChanged) THEN replayCleanup(cur) ELSE cur
        s1 == IF steppingDeps(prev, cur, seqChanged) THEN steppingEffect(cur, s0) ELSE s0
    IN  IF replayDeps(prev, cur, seqChanged) THEN replayEffect(cur, s1) ELSE s1

\* render cur (prev is the previous render) and run effects until no
\* dependency changes.  replaced: clickSequence was set to a new array
\* (a new reference even when its contents are equal)
RECURSIVE Render(_, _, _)
Render(prev, cur, replaced) ==
    LET seqChanged == replaced \/ prev.clickSequence # cur.clickSequence IN
    IF ~steppingDeps(prev, cur, seqChanged) /\ ~replayDeps(prev, cur, seqChanged)
    THEN cur
    ELSE Render(cur, EffectsPass(prev, cur, seqChanged), FALSE)

\* ------------------------------------------------------------ replay loop
\* faulty variant: the record's state is applied together with the cursor
setCursorAndWait_Apply(s, k, record) ==
    updateSlideState(
        [s EXCEPT !.replayCursor = [set |-> TRUE, x |-> record.x, y |-> record.y,
                                    slideIndex |-> record.slideIndex],
                  !.loops[k].pc = "cursor"],
        record.slideIndex,
        [transform |-> record.toolState.transform,
         spotlight |-> record.toolState.spotlight])

setCursorAndWait(s, k, record) ==
    [s EXCEPT !.replayCursor = [set |-> TRUE, x |-> record.x, y |-> record.y,
                                slideIndex |-> record.slideIndex],
              !.loops[k].pc = "cursor"]

\* faulty variant: a record on another slide does not switch the slide
animateStep_NoSwitch(s, k) ==
    LET l == s.loops[k] IN
    IF l.isCancelled \/ l.step >= Len(l.clickSequence)
    THEN [s EXCEPT !.isPlaying = FALSE, !.loops = RemoveAt(@, k)]
    ELSE setCursorAndWait(s, k, l.clickSequence[l.step + 1])

\* animateStep up to its first await (or its return), for the loop at loops[k]
animateStep(s, k) ==
    LET l == s.loops[k] IN
    IF l.isCancelled \/ l.step >= Len(l.clickSequence)
    THEN [s EXCEPT !.isPlaying = FALSE, !.loops = RemoveAt(@, k)]
    ELSE LET record == l.clickSequence[l.step + 1] IN
         IF record.slideIndex # l.currentSlideIndex
         THEN [s EXCEPT !.currentSlideIndex = record.slideIndex,
                        !.loops[k].pc = "slide"]
         ELSE setCursorAndWait(s, k, record)

\* the continuation after `await sleep(500)`
afterSlideDelay(s, k) ==
    LET l == s.loops[k] IN
    IF l.isCancelled THEN [s EXCEPT !.loops = RemoveAt(@, k)]
    ELSE setCursorAndWait(s, k, l.clickSequence[l.step + 1])

\* the continuation after `await sleep(800)`
afterCursorDelay(s, k) ==
    LET l == s.loops[k]
        record == l.clickSequence[l.step + 1] IN
    IF l.isCancelled THEN [s EXCEPT !.loops = RemoveAt(@, k)]
    ELSE updateSlideState([s EXCEPT !.loops[k].pc = "post"], record.slideIndex,
                          [transform |-> record.toolState.transform,
                           spotlight |-> record.toolState.spotlight])

\* the continuation after `await sleep(400)`
afterApplyDelay(s, k) ==
    LET l == s.loops[k] IN
    IF l.isCancelled THEN [s EXCEPT !.loops = RemoveAt(@, k)]
    ELSE animateStep([s EXCEPT !.loops[k].step = @ + 1], k)

resume(s, k) ==
    CASE s.loops[k].pc = "settle" -> animateStep(s, k)
      [] s.loops[k].pc = "slide"  -> afterSlideDelay(s, k)
      [] s.loops[k].pc = "cursor" -> afterCursorDelay(s, k)
      [] s.loops[k].pc = "post"   -> afterApplyDelay(s, k)

\* ------------------------------------------------------------ Canvas.tsx
\* r is the App render a Canvas got its props from, i the index of its slide
\* (App.tsx 292-316), cv the Canvas's own state, p the pointer position.

onTransformChange(s, i, transform) == updateSlideState(s, i, [transform |-> transform])
onSpotlightChange(s, i, spotlight) == updateSlideState(s, i, [spotlight |-> spotlight])

\* faulty variant: the view reset leaves the Spotlight in place
resetView_TransformOnly(s, i) == onTransformChange(s, i, INITIAL_TRANSFORM)

resetView(s, i) == onSpotlightChange(onTransformChange(s, i, INITIAL_TRANSFORM), i, NoSpotlight)

\* faulty variant: the zoom keeps the clicked image point under the pointer
zoomAt_AtClick(transform, x, y) ==
    LET newScale == (transform.scale * ZOOM_NUM) \div ZOOM_DEN
        imgXs == x * Unit - transform.x
        imgYs == y * Unit - transform.y
    IN  [scale |-> newScale,
         x |-> x * Unit - (imgXs * newScale) \div transform.scale,
         y |-> y * Unit - (imgYs * newScale) \div transform.scale]

\* the zoom arithmetic of handleCanvasClick / handleKeyboardActivation for a
\* click at container pixel (x, y); transform components are in 1/Unit
zoomAt(transform, x, y) ==
    LET newScale == (transform.scale * ZOOM_NUM) \div ZOOM_DEN
        imgXs == x * Unit - transform.x     \* imgX * transform.scale
        imgYs == y * Unit - transform.y
    IN  [scale |-> newScale,
         x |-> (ContainerW * Unit) \div 2 - (imgXs * newScale) \div transform.scale,
         y |-> (ContainerH * Unit) \div 2 - (imgYs * newScale) \div transform.scale]

\* transform has been zoomed fewer than n times: scale < ZOOM_FACTOR^n
ZoomsBelow(transform, n) ==
    transform.scale * Pow(ZOOM_DEN, n) < Unit * Pow(ZOOM_NUM, n)

\* one more zoom is within MaxZoom (and its result a multiple of 1/Unit)
CanZoom(transform) == ZoomsBelow(transform, MaxZoom)

handleCanvasClick(r, i, p, detail) ==
    IF detail # 1 \/ r.isPlaying \/ r.activeTool = "spotlight" THEN r
    ELSE LET transform == r.slides[i + 1].transform
             nextTransform == IF r.activeTool = "pan_zoom"
                              THEN zoomAt(transform, p[1], p[2])
                              ELSE transform
             s1 == IF r.activeTool = "pan_zoom"
                   THEN onSpotlightChange(onTransformChange(r, i, nextTransform),
                                          i, NoSpotlight)
                   ELSE r
         IN  handleRecordClick(r, s1, p[1], p[2], nextTransform, NoSpotlight)

handleKeyboardActivation(r, i) ==
    IF r.isPlaying \/ r.activeTool = "spotlight" THEN r
    ELSE LET transform == r.slides[i + 1].transform
             nextTransform == IF r.activeTool = "pan_zoom"
                              THEN zoomAt(transform, ContainerW \div 2, ContainerH \div 2)
                              ELSE transform
             s1 == IF r.activeTool = "pan_zoom"
                   THEN onSpotlightChange(onTransformChange(r, i, nextTransform),
                                          i, NoSpotlight)
                   ELSE r
         IN  handleRecordClick(r, s1, ContainerW \div 2, ContainerH \div 2,
                               nextTransform, NoSpotlight)

handleDoubleClick(r, i) == IF r.isPlaying THEN r ELSE resetView(r, i)

\* faulty variant: a distance of exactly DRAG_THRESHOLD counts as a tap
BelowThreshold_Inclusive(a, b) ==
    (a[1] - b[1]) * (a[1] - b[1]) + (a[2] - b[2]) * (a[2] - b[2])
        <= DRAG_THRESHOLD * DRAG_THRESHOLD

\* Math.hypot(dx, dy) < DRAG_THRESHOLD, on whole pixels
BelowThreshold(a, b) ==
    (a[1] - b[1]) * (a[1] - b[1]) + (a[2] - b[2]) * (a[2] - b[2])
        < DRAG_THRESHOLD * DRAG_THRESHOLD

rectBetween(a, b) ==
    [type |-> "rect", x |-> Min(a[1], b[1]), y |-> Min(a[2], b[2]),
     width |-> Abs(a[1] - b[1]), height |-> Abs(a[2] - b[2]), radius |-> 0]

circleAt(p) ==
    [type |-> "circle", x |-> p[1], y |-> p[2], radius |-> CIRCLE_RADIUS,
     width |-> 0, height |-> 0]

\* the Canvas state after handleMouseDown
handleMouseDown(r, cv, p) ==
    IF r.isPlaying \/ r.activeTool # "spotlight" THEN cv
    ELSE [isDragging |-> TRUE, dragStart |-> p]

\* faulty variant: a move below the threshold leaves the preview in place
handleMouseMove_KeepPreview(r, cv, i, p) ==
    IF ~cv.isDragging \/ r.activeTool # "spotlight" \/ r.isPlaying THEN r
    ELSE IF BelowThreshold(p, cv.dragStart)
         THEN r
         ELSE onSpotlightChange(r, i, rectBetween(cv.dragStart, p))

handleMouseMove(r, cv, i, p) ==
    IF ~cv.isDragging \/ r.activeTool # "spotlight" \/ r.isPlaying THEN r
    ELSE IF BelowThreshold(p, cv.dragStart)
         THEN onSpotlightChange(r, i, NoSpotlight)
         ELSE onSpotlightChange(r, i, rectBetween(cv.dragStart, p))

\* the guard of handleMouseUp: the pointer-up commits a Spotlight
mouseUpCommits(r, cv) == cv.isDragging /\ r.activeTool = "spotlight"

finalSpotlight(cv, endPos) ==
    IF BelowThreshold(endPos, cv.dragStart) THEN circleAt(endPos)
    ELSE rectBetween(cv.dragStart, endPos)

handleMouseUp(r, cv, i, endPos) ==
    IF ~mouseUpCommits(r, cv) THEN r
    ELSE handleRecordClick(r, onSpotlightChange(r, i, finalSpotlight(cv, endPos)),
                           endPos[1], endPos[2],
                           r.slides[i + 1].transform, finalSpotlight(cv, endPos))


\* hasSequence={clickSequence.length > 0 && !isPlaying}, the Toolbar prop
hasSequence(r) == Len(r.clickSequence) > 0 /\ ~r.isPlaying

\* ------------------------------------------------------------ state machine
Init ==
    /\ activeTool = "none"
    /\ isCapturing = FALSE
    /\ slides = <<createEmptySlide>>
    /\ currentSlideIndex = 0
    /\ clickSequence = <<>>
    /\ isPlaying = FALSE
    /\ isStepping = FALSE
    /\ currentStep = 0
    /\ replayCursor = NoCursor
    /\ canvas = <<NewCanvas>>
    /\ loops = <<>>
    /\ last = [op |-> "init", pc |-> "-", flag |-> FALSE]
    /\ applied = <<>>
    /\ runClean = FALSE

SlideIndices == 0..(Len(slides) - 1)

\* the model keeps at most MaxRecords records and MaxLoops pending timers
Bounded(n) == Len(n.clickSequence) <= MaxRecords /\ Len(n.loops) <= MaxLoops

SetApp(n) ==
    /\ activeTool' = n.activeTool
    /\ isCapturing' = n.isCapturing
    /\ slides' = n.slides
    /\ currentSlideIndex' = n.currentSlideIndex
    /\ clickSequence' = n.clickSequence
    /\ isPlaying' = n.isPlaying
    /\ isStepping' = n.isStepping
    /\ currentStep' = n.currentStep
    /\ replayCursor' = n.replayCursor
    /\ loops' = n.loops

\* an operator event: the handler's result cur is rendered, effects run.
\* last records the event (flag: the handler passed its guards); an operator
\* event ends the undisturbed replay run that applied/runClean observe.
UserEvent(op, i, flag, cur, replaced, cv) ==
    LET n == Render(App, cur, replaced) IN
    /\ Bounded(n)
    /\ SetApp(n)
    /\ canvas' = cv
    /\ last' = [op |-> op, pc |-> "-", flag |-> flag]
    /\ applied' = <<>>
    /\ runClean' = FALSE

AddSlide ==
    /\ Len(slides) < MaxSlides
    /\ UserEvent("addSlide", Len(slides), TRUE, addSlide(App), FALSE,
                 Append(canvas, NewCanvas))

GoToNextSlide ==
    UserEvent("goToNextSlide", currentSlideIndex, ~isPlaying, goToNextSlide(App),
              FALSE, canvas)

GoToPrevSlide ==
    UserEvent("goToPrevSlide", currentSlideIndex, ~isPlaying, goToPrevSlide(App),
              FALSE, canvas)

ToggleCapture ==
    UserEvent("toggleCapture", currentSlideIndex, TRUE, toggleCapture(App), FALSE, canvas)

\* useKeyboardShortcuts: 'a' and 's'
KeySetTool(tool) ==
    UserEvent("setActiveTool", currentSlideIndex, TRUE,
              [App EXCEPT !.activeTool = tool], FALSE, canvas)

\* Toolbar buttons: setActiveTool(prev => prev === tool ? NONE : tool)
ToolbarTool(tool) ==
    UserEvent("setActiveTool", currentSlideIndex, TRUE,
              [App EXCEPT !.activeTool = IF @ = tool THEN "none" ELSE tool],
              FALSE, canvas)

FileForSlide(i, type) ==
    UserEvent("handleFileForSlide", i, TRUE, handleFileForSlide(App, i, type),
              FALSE, canvas)

\* pointer events reach the Canvas of the displayed slide; a PanZoom tap is
\* delivered while the slide has been zoomed fewer than depth times
CanvasClickWithin(p, detail, depth) ==
    LET i == currentSlideIndex IN
    /\ activeTool = "pan_zoom" => ZoomsBelow(slides[i + 1].transform, depth)
    /\ UserEvent("handleCanvasClick", i,
                 detail = 1 /\ ~isPlaying /\ activeTool # "spotlight",
                 handleCanvasClick(App, i, p, detail), FALSE, canvas)

CanvasClick(p, detail) == CanvasClickWithin(p, detail, MaxZoom)

\* Enter/Space on whichever Canvas holds the keyboard focus
KeyboardActivationWithin(i, depth) ==
    /\ activeTool = "pan_zoom" => ZoomsBelow(slides[i + 1].transform, depth)
    /\ UserEvent("handleKeyboardActivation", i,
                 ~isPlaying /\ activeTool # "spotlight",
                 handleKeyboardActivation(App, i), FALSE, canvas)

KeyboardActivation(i) == KeyboardActivationWithin(i, MaxZoom)

DoubleClick ==
    UserEvent("handleDoubleClick", currentSlideIndex, ~isPlaying,
              handleDoubleClick(App, currentSlideIndex), FALSE, canvas)

MouseDown(p) ==
    LET i == currentSlideIndex IN
    UserEvent("handleMouseDown", i, ~isPlaying /\ activeTool = "spotlight",
              App, FALSE,
              [canvas EXCEPT ![i + 1] = handleMouseDown(App, @, p)])

MouseMove(p) ==
    LET i == currentSlideIndex IN
    UserEvent("handleMouseMove", i,
              canvas[i + 1].isDragging /\ activeTool = "spotlight" /\ ~isPlaying,
              handleMouseMove(App, canvas[i + 1], i, p), FALSE, canvas)

\* handleMouseUp ends with setIsDragging(false) on both paths
MouseUp(p) ==
    LET i == currentSlideIndex IN
    UserEvent("handleMouseUp", i, mouseUpCommits(App, canvas[i + 1]),
              handleMouseUp(App, canvas[i + 1], i, p), FALSE,
              [canvas EXCEPT ![i + 1].isDragging = FALSE])

\* an accepted start begins a run; the run is observed (runClean) when no
\* timer of an earlier loop is still pending
HandleReplay ==
    LET ok == Len(clickSequence) > 0 /\ ~isPlaying
        n == Render(App, handleReplay(App), FALSE) IN
    /\ Bounded(n)
    /\ SetApp(n)
    /\ canvas' = canvas
    /\ last' = [op |-> "handleReplay", pc |-> "-", flag |-> ok]
    /\ applied' = <<>>
    /\ runClean' = (ok /\ loops = <<>>)

\* App hands handleStepReplay to the Toolbar as onStepReplay (App.tsx:269);
\* the action is a call of that prop
HandleStepReplay ==
    UserEvent("handleStepReplay", currentSlideIndex,
              Len(clickSequence) > 0 /\ ~isStepping,
              handleStepReplay(App), FALSE, canvas)

\* ReplayControls is rendered only while isStepping
HandleNextStep ==
    /\ isStepping
    /\ UserEvent("handleNextStep", currentSlideIndex,
                 currentStep < Len(clickSequence) - 1,
                 handleNextStep(App), FALSE, canvas)

HandlePrevStep ==
    /\ isStepping
    /\ UserEvent("handlePrevStep", currentSlideIndex, currentStep > 0,
                 handlePrevStep(App), FALSE, canvas)

HandleExitStepping ==
    /\ isStepping
    /\ UserEvent("handleExitStepping", currentSlideIndex, TRUE,
                 handleExitStepping(App), FALSE, canvas)

\* the new slide has a new id, hence a new key: its Canvas is mounted afresh
HandleFullReset ==
    UserEvent("handleFullReset", currentSlideIndex, TRUE, handleFullReset(App),
              TRUE, <<NewCanvas>>)

\* the replay step of loops[k] applies its record when its cursor delay fires
Applies(k) == loops[k].pc = "cursor" /\ ~loops[k].isCancelled

AppliedEntry(k) ==
    LET record == loops[k].clickSequence[loops[k].step + 1] IN
    [slideIndex |-> record.slideIndex, transform |-> record.toolState.transform,
     spotlight |-> record.toolState.spotlight]

\* a pending delay of loops[k] elapses
TimerFire(k) ==
    LET n == Render(App, resume(App, k), FALSE) IN
    /\ Bounded(n)
    /\ SetApp(n)
    /\ canvas' = canvas
    /\ last' = [op |-> "timer", pc |-> loops[k].pc, flag |-> loops[k].isCancelled]
    /\ applied' = IF runClean /\ Applies(k) /\ Len(applied) <= MaxRecords
                  THEN Append(applied, AppliedEntry(k)) ELSE applied
    /\ runClean' = runClean

Timers == \E k \in 1..Len(loops) : TimerFire(k)

\* the whole environment: every event the components accept
Next ==
    \/ AddSlide
    \/ GoToNextSlide
    \/ GoToPrevSlide
    \/ ToggleCapture
    \/ \E tool \in {"pan_zoom", "spotlight"} : KeySetTool(tool)
    \/ \E tool \in {"pan_zoom", "spotlight"} : ToolbarTool(tool)
    \/ \E type \in MediaTypes : FileForSlide(currentSlideIndex, type)
    \/ \E p \in Points, detail \in {1, 2} : CanvasClick(p, detail)
    \/ \E i \in SlideIndices : KeyboardActivation(i)
    \/ DoubleClick
    \/ \E p \in Points : MouseDown(p)
    \/ \E p \in Points : MouseMove(p)
    \/ \E p \in Points : MouseUp(p)
    \/ HandleReplay
    \/ HandleStepReplay
    \/ HandleNextStep
    \/ HandlePrevStep
    \/ HandleExitStepping
    \/ HandleFullReset
    \/ Timers

Spec == Init /\ [][Next]_vars

(***************************************************************************)
(* The state space of Next is too large to enumerate, so the properties    *)
(* are checked in the environments below, each a part of Next.              *)
(***************************************************************************)

\* Continuous replay over several slides: slides are added and navigated,
\* taps (tool None or PanZoom, at one position) are captured, media is
\* attached, replays are started, left to run and reset.
ReplayNext ==
    \/ AddSlide
    \/ GoToNextSlide
    \/ GoToPrevSlide
    \/ ToggleCapture
    \/ ToolbarTool("pan_zoom")
    \/ FileForSlide(currentSlideIndex, "image")
    \/ CanvasClick(<<0, 0>>, 1)
    \/ HandleReplay
    \/ HandleFullReset
    \/ Timers

ReplaySpec == Init /\ [][ReplayNext]_vars

\* Termination of a Continuous replay: records are captured on one or two
\* slides and replayed, and no reset occurs.  A timer that is pending does
\* elapse (setTimeout), hence weak fairness of Timers.
TerminationNext ==
    \/ AddSlide
    \/ ToggleCapture
    \/ CanvasClick(<<0, 0>>, 1)
    \/ HandleReplay
    \/ Timers

FairTerminationSpec == Init /\ [][TerminationNext]_vars /\ WF_vars(Timers)

\* Stepped and Continuous replay together, without media.
SteppedNext ==
    \/ AddSlide
    \/ GoToNextSlide
    \/ GoToPrevSlide
    \/ ToggleCapture
    \/ ToolbarTool("pan_zoom")
    \/ CanvasClick(<<0, 0>>, 1)
    \/ HandleReplay
    \/ HandleStepReplay
    \/ HandleNextStep
    \/ HandlePrevStep
    \/ HandleExitStepping
    \/ HandleFullReset
    \/ Timers

SteppedSpec == Init /\ [][SteppedNext]_vars

\* Every gesture of one Canvas under every tool, with capture and Continuous
\* replay of the captured record, on a single slide.
MaxGestureRecords == 1

\* a gesture may append only while fewer than MaxGestureRecords records are held
RecordRoom ==
    \/ Len(clickSequence) < MaxGestureRecords
    \/ Len(clickSequence') <= Len(clickSequence)

GestureNext ==
    \/ ToggleCapture
    \/ \E tool \in {"pan_zoom", "spotlight"} : ToolbarTool(tool)
    \/ \E p \in Points, detail \in {1, 2} : CanvasClick(p, detail) /\ RecordRoom
    \/ KeyboardActivation(0) /\ RecordRoom
    \/ DoubleClick
    \/ \E p \in Points : MouseDown(p)
    \/ \E p \in Points : MouseMove(p)
    \/ \E p \in Points : MouseUp(p) /\ RecordRoom
    \/ HandleReplay
    \/ Timers

GestureSpec == Init /\ [][GestureNext]_vars


\* Spotlight gestures of one Canvas: pointer-down, moves and pointer-up at
\* positions that lie below, exactly at and above DRAG_THRESHOLD from one
\* another, in every direction.
DragPoints == { <<0, 0>>, <<6, 7>>, <<6, 8>>, <<10, 0>>, <<0, 10>> }

SpotlightNext ==
    \/ \E tool \in {"pan_zoom", "spotlight"} : ToolbarTool(tool)
    \/ \E p \in DragPoints : MouseDown(p)
    \/ \E p \in DragPoints : MouseMove(p)
    \/ \E p \in DragPoints : MouseUp(p)

SpotlightSpec == Init /\ [][SpotlightNext]_vars

\* Spotlight gestures with capture, Continuous and Stepped replay, on a
\* single slide.
SpotlightReplayNext ==
    \/ ToggleCapture
    \/ ToolbarTool("spotlight")
    \/ MouseDown(<<0, 0>>)
    \/ \E p \in {<<0, 0>>, <<6, 8>>} : MouseMove(p)
    \/ \E p \in {<<0, 0>>, <<6, 8>>} : MouseUp(p)
    \/ HandleReplay
    \/ HandleStepReplay
    \/ HandleExitStepping
    \/ Timers

SpotlightReplaySpec == Init /\ [][SpotlightReplayNext]_vars

\* Zooming up to MaxDeepZoom times at several positions and by keyboard,
\* view resets and Spotlights, over several slides, without capture.
ZoomNext ==
    \/ AddSlide
    \/ GoToNextSlide
    \/ GoToPrevSlide
    \/ \E tool \in {"pan_zoom", "spotlight"} : ToolbarTool(tool)
    \/ \E p \in Points, detail \in {1, 2} : CanvasClickWithin(p, detail, MaxDeepZoom)
    \/ \E i \in SlideIndices : KeyboardActivationWithin(i, MaxDeepZoom)
    \/ DoubleClick
    \/ MouseDown(<<0, 0>>)
    \/ MouseUp(<<0, 0>>)

ZoomSpec == Init /\ [][ZoomNext]_vars

\* View resets among taps, Spotlights, capture and Continuous replay, over
\* several slides.
ResetViewNext ==
    \/ AddSlide
    \/ GoToNextSlide
    \/ GoToPrevSlide
    \/ ToggleCapture
    \/ \E tool \in {"pan_zoom", "spotlight"} : ToolbarTool(tool)
    \/ CanvasClick(<<0, 0>>, 1) /\ RecordRoom
    \/ MouseDown(<<0, 0>>)
    \/ MouseUp(<<0, 0>>) /\ RecordRoom
    \/ DoubleClick
    \/ HandleReplay
    \/ Timers

ResetViewSpec == Init /\ [][ResetViewNext]_vars


\* updateSlideState called with any index, in range or not, and any of the
\* partials its callers pass
Partials ==
    { [transform |-> zoomAt(INITIAL_TRANSFORM, 0, 0)],
      [spotlight |-> circleAt(<<0, 0>>)],
      [transform |-> INITIAL_TRANSFORM, spotlight |-> NoSpotlight],
      [mediaUrl |-> "blob", mediaType |-> "video"] }

\* every index a caller can hold: one before the first slide to one past the
\* longest slide list
AnyIndex == (0 - 1)..MaxSlides

UpdateSlide(i, updates) ==
    UserEvent("updateSlideState", i, i + 1 \in 1..Len(slides),
              updateSlideState(App, i, updates), FALSE, canvas)

UpdateNext ==
    \/ AddSlide
    \/ GoToPrevSlide
    \/ \E i \in AnyIndex, updates \in Partials : UpdateSlide(i, updates)
    \/ \E i \in AnyIndex : FileForSlide(i, "image")
    \/ HandleFullReset

UpdateSpec == Init /\ [][UpdateNext]_vars


\* Captured taps and keyboard activations over several slides; the keyboard
\* focus may be on the Canvas of any slide (each has tabIndex 0).
AttributionNext ==
    \/ AddSlide
    \/ GoToNextSlide
    \/ GoToPrevSlide
    \/ ToggleCapture
    \/ ToolbarTool("pan_zoom")
    \/ CanvasClick(<<0, 0>>, 1)
    \/ \E i \in SlideIndices : KeyboardActivation(i)

AttributionSpec == Init /\ [][AttributionNext]_vars


\* Spotlight drags that are committed or abandoned: every drag starts and
\* ends at (0,0), so that a commit yields the circle at (0,0) and never a
\* Rect, while a move to (6,8) previews a Rect; with tool changes, view
\* resets, capture and Continuous replay on a single slide.
PreviewNext ==
    \/ ToggleCapture
    \/ \E tool \in {"pan_zoom", "spotlight"} : ToolbarTool(tool)
    \/ MouseDown(<<0, 0>>)
    \/ \E p \in {<<0, 0>>, <<6, 8>>} : MouseMove(p)
    \/ MouseUp(<<0, 0>>) /\ RecordRoom
    \/ DoubleClick
    \/ HandleReplay
    \/ Timers

PreviewSpec == Init /\ [][PreviewNext]_vars


\* ------------------------------------------------------------ properties

IsPrefix(a, b) == Len(a) <= Len(b) /\ \A j \in 1..Len(a) : a[j] = b[j]

RECURSIVE OnSlide(_, _)
\* the entries of a log that are on slide s, in order
OnSlide(log, s) ==
    IF log = <<>> THEN <<>>
    ELSE IF Head(log).slideIndex = s
         THEN <<[transform |-> Head(log).transform, spotlight |-> Head(log).spotlight]>>
              \o OnSlide(Tail(log), s)
         ELSE OnSlide(Tail(log), s)

\* the captured Transform/Spotlight of the recorded sequence, as a log
Captured ==
    [j \in 1..Len(clickSequence) |->
        [slideIndex |-> clickSequence[j].slideIndex,
         transform |-> clickSequence[j].toolState.transform,
         spotlight |-> clickSequence[j].toolState.spotlight]]

\* C1: in a replay run that no operator event disturbs, the values applied to
\* each slide are, in order, a prefix of the captured values of that slide's
\* records, and all of them once the run has ended (isPlaying is off again).
C1_OrderPreserving ==
    runClean =>
        \A s \in 0..(MaxSlides - 1) :
            /\ IsPrefix(OnSlide(applied, s), OnSlide(Captured, s))
            /\ ~isPlaying => OnSlide(applied, s) = OnSlide(Captured, s)

\* the same, for recorded sequences whose records are all on one slide
C1_SingleSlideOrder ==
    (runClean /\ \A j \in 1..Len(clickSequence) :
                    clickSequence[j].slideIndex = clickSequence[1].slideIndex)
        => \A s \in 0..(MaxSlides - 1) :
            /\ IsPrefix(OnSlide(applied, s), OnSlide(Captured, s))
            /\ ~isPlaying => OnSlide(applied, s) = OnSlide(Captured, s)

C2_SingleSlideTerminates ==
    (isPlaying /\ \A j \in 1..Len(clickSequence) :
                    clickSequence[j].slideIndex = clickSequence[1].slideIndex)
        ~> (~isPlaying /\ replayCursor = NoCursor)

\* C3: when a delay fires for a replay step that was cancelled, or while
\* isPlaying is off, the step changes no slide, does not switch the displayed
\* slide, does not put the cursor on its record (the cursor keeps its value,
\* or is cleared when a cancelled settle delay turns isPlaying off) and leaves
\* no timer of its own behind.
C3_CancelledStepSuppressed ==
    [][ (last'.op = "timer" /\ (last'.flag \/ ~isPlaying)) =>
            /\ slides' = slides
            /\ currentSlideIndex' = currentSlideIndex
            /\ replayCursor' \in {replayCursor, NoCursor}
            /\ ~isPlaying => replayCursor' = replayCursor
            /\ Len(loops') = Len(loops) - 1 ]_vars

\* a reset emptied the sequence while a step waited for its cursor-travel
\* delay, and that delay has now fired
C3_Witness ==
    /\ last.op = "timer" /\ last.flag /\ last.pc = "cursor"
    /\ ~isPlaying /\ clickSequence = <<>>

\* C4: Continuous and Stepped replay are never active together.
C4_ModesExclusive == ~(isPlaying /\ isStepping)

GestureOps == {"handleCanvasClick", "handleKeyboardActivation", "handleDoubleClick",
               "handleMouseDown", "handleMouseMove", "handleMouseUp"}

\* C5: while isPlaying, no gesture event changes a slide or the record sequence.
C5_SingleWriter ==
    [][ (isPlaying /\ last'.op \in GestureOps) =>
            (slides' = slides /\ clickSequence' = clickSequence) ]_vars

\* C6: an accepted startReplay leaves every slide with the identity Transform
\* and no Spotlight, and with the media and the number of slides it had.
C6_StartResets ==
    [][ (last'.op = "handleReplay" /\ last'.flag) =>
            /\ Len(slides') = Len(slides)
            /\ \A j \in 1..Len(slides) :
                  /\ slides'[j].transform = INITIAL_TRANSFORM
                  /\ slides'[j].spotlight = NoSpotlight
                  /\ slides'[j].mediaUrl = slides[j].mediaUrl
                  /\ slides'[j].mediaType = slides[j].mediaType ]_vars

\* a replay of a zoomed record has just been accepted on slides with media
C6_Witness ==
    /\ last.op = "handleReplay" /\ last.flag
    /\ \E j \in 1..Len(clickSequence) :
          clickSequence[j].toolState.transform # INITIAL_TRANSFORM
    /\ \E j \in 1..Len(slides) : slides[j].mediaType = "image"

\* C7: after resetAll no replay is active, the step index is cleared and the
\* replay cursor is null.
C7_ResetTearsDown ==
    last.op = "handleFullReset" =>
        ~isPlaying /\ ~isStepping /\ currentStep = 0 /\ replayCursor = NoCursor

\* C8: after resetAll the record sequence is empty, there is exactly one
\* empty slide, which is displayed, capture is off and the tool is None.
C8_ResetState ==
    last.op = "handleFullReset" =>
        /\ clickSequence = <<>>
        /\ slides = <<createEmptySlide>>
        /\ currentSlideIndex = 0
        /\ ~isCapturing
        /\ activeTool = "none"

\* resetAll has just ended a running replay (its timer is still pending)
C8_Witness == last.op = "handleFullReset" /\ loops # <<>>

CommitOps == {"handleCanvasClick", "handleKeyboardActivation", "handleMouseUp"}

\* C9: after a committed gesture with capture on, the record it appended holds
\* the Transform and Spotlight of the gesture's slide (GestureSpec has one slide).
C9_RecordIsSnapshot ==
    (last.op \in CommitOps /\ last.flag /\ isCapturing) =>
        /\ clickSequence # <<>>
        /\ clickSequence[Len(clickSequence)].toolState.transform = slides[1].transform
        /\ clickSequence[Len(clickSequence)].toolState.spotlight = slides[1].spotlight

\* C10: a committed pointer-up or tap appends exactly one record when capture
\* is on and none when it is off; pointer-down and pointer-move append none.
C10_OneRecordPerGesture ==
    [][ /\ (last'.op \in {"handleMouseUp", "handleCanvasClick"} /\ last'.flag) =>
              IF isCapturing
              THEN /\ Len(clickSequence') = Len(clickSequence) + 1
                   /\ SubSeq(clickSequence', 1, Len(clickSequence)) = clickSequence
              ELSE clickSequence' = clickSequence
        /\ last'.op \in {"handleMouseDown", "handleMouseMove"} =>
              clickSequence' = clickSequence ]_vars

\* a Spotlight pointer-up has just been committed and captured
C10_Witness ==
    /\ last.op = "handleMouseUp" /\ last.flag /\ isCapturing
    /\ Len(clickSequence) = 1
    /\ clickSequence[1].toolState.spotlight.type \in {"circle", "rect"}

\* C11: every transition other than resetAll keeps the recorded sequence as a
\* prefix of the new one: records are never edited, removed or reordered.
C11_AppendOnly ==
    [][ last'.op # "handleFullReset" => IsPrefix(clickSequence, clickSequence') ]_vars

\* a tap has just appended a second record to a sequence that held one
C11_Witness ==
    /\ last.op = "handleCanvasClick" /\ last.flag
    /\ Len(clickSequence) = 2

StepOps == {"handleStepReplay", "handleNextStep", "handlePrevStep"}

\* record k of the recorded sequence (k is 0-based, as currentStep is)
RecordAt(k) == clickSequence[k + 1]

\* the displayed slide and its Transform/Spotlight are those of record currentStep
StepApplied ==
    /\ currentStep + 1 \in 1..Len(clickSequence)
    /\ currentSlideIndex = RecordAt(currentStep).slideIndex
    /\ currentSlideIndex + 1 \in 1..Len(slides)
    /\ slides[currentSlideIndex + 1].transform = RecordAt(currentStep).toolState.transform
    /\ slides[currentSlideIndex + 1].spotlight = RecordAt(currentStep).toolState.spotlight

\* C12: after an accepted startSteppedReplay, nextStep or prevStep the displayed
\* slide is the slide of record currentStep and holds that record's captured
\* Transform and Spotlight.
C12_StepApplied ==
    (last.op \in StepOps /\ last.flag) => StepApplied

\* the same, while no Continuous replay is active
\* and the sequence holds a record (it is empty after a resetAll)
C12_StepAppliedNotPlaying ==
    (last.op \in StepOps /\ last.flag /\ ~isPlaying /\ clickSequence # <<>>)
        => StepApplied

\* C13: after an accepted startSteppedReplay, nextStep or prevStep (no
\* Continuous replay being active) the replay cursor is set and is at
\* (x, y, slideIndex) of record currentStep.
C13_StepCursor ==
    (last.op \in StepOps /\ last.flag /\ ~isPlaying) =>
        /\ currentStep + 1 \in 1..Len(clickSequence)
        /\ replayCursor = [set |-> TRUE, x |-> RecordAt(currentStep).x,
                           y |-> RecordAt(currentStep).y,
                           slideIndex |-> RecordAt(currentStep).slideIndex]


\* C14: after exitStepping (no Continuous replay being active) Stepped replay
\* is inactive, the step index is 0, the replay cursor is null and no slide
\* has changed.
C14_ExitClears ==
    [][ (last'.op = "handleExitStepping" /\ ~isPlaying) =>
            /\ ~isStepping'
            /\ currentStep' = 0
            /\ replayCursor' = NoCursor
            /\ slides' = slides ]_vars

\* k clamped to the indices of the recorded sequence
Clamp(k) == Max(0, Min(k, Len(clickSequence) - 1))

C15_StepClampedInRange ==
    [][ currentStep + 1 \in 1..Len(clickSequence) =>
          /\ last'.op = "handleNextStep" => currentStep' = Clamp(currentStep + 1)
          /\ last'.op = "handlePrevStep" => currentStep' = Clamp(currentStep - 1) ]_vars

\* C16: startSteppedReplay changes nothing when the sequence is empty or
\* Stepped replay is active; when accepted it sets the step index to 0 and
\* leaves every slide with the identity Transform and no Spotlight, but for
\* the slide of record 0, which may hold that record's Transform and Spotlight
\* (step 0 is applied after the reset); media and slide count are kept.
C16_StepStartGuardedResets ==
    [][ last'.op = "handleStepReplay" =>
          IF Len(clickSequence) = 0 \/ isStepping
          THEN UNCHANGED <<activeTool, isCapturing, slides, currentSlideIndex,
                           clickSequence, isPlaying, isStepping, currentStep,
                           replayCursor, canvas, loops>>
          ELSE /\ isStepping' /\ currentStep' = 0
               /\ clickSequence' = clickSequence
               /\ Len(slides') = Len(slides)
               /\ \A j \in 1..Len(slides) :
                     /\ slides'[j].mediaUrl = slides[j].mediaUrl
                     /\ slides'[j].mediaType = slides[j].mediaType
                     /\ \/ /\ slides'[j].transform = INITIAL_TRANSFORM
                           /\ slides'[j].spotlight = NoSpotlight
                        \/ /\ j = clickSequence[1].slideIndex + 1
                           /\ slides'[j].transform = clickSequence[1].toolState.transform
                           /\ slides'[j].spotlight = clickSequence[1].toolState.spotlight ]_vars

\* Stepped replay has just been started over two slides, the second record
\* being a zoom on a slide other than that of record 0
C16_Witness ==
    /\ last.op = "handleStepReplay" /\ last.flag
    /\ isStepping /\ currentStep = 0
    /\ Len(clickSequence) = 2
    /\ clickSequence[2].slideIndex # clickSequence[1].slideIndex
    /\ clickSequence[2].toolState.transform # INITIAL_TRANSFORM
    /\ slides[clickSequence[2].slideIndex + 1].transform = INITIAL_TRANSFORM


\* C17: a startReplay that is not accepted (empty sequence, or a Continuous
\* replay already running) changes nothing: no state of the session and no
\* replay loop is started, restarted or cancelled.
C17_InvalidStartNoEffect ==
    [][ (last'.op = "handleReplay" /\ (Len(clickSequence) = 0 \/ isPlaying)) =>
            UNCHANGED <<activeTool, isCapturing, slides, currentSlideIndex,
                        clickSequence, isPlaying, isStepping, currentStep,
                        replayCursor, canvas, loops>> ]_vars

\* startReplay has just been rejected while a replay loop is running
C17_Witness ==
    /\ last.op = "handleReplay" /\ ~last.flag
    /\ isPlaying
    /\ \E k \in 1..Len(loops) : ~loops[k].isCancelled

\* C18: while a Continuous replay is running, toggleCapture and setActiveTool
\* change neither the capture-mode flag nor the active tool.
C18_NoModeChangeWhilePlaying ==
    [][ (isPlaying /\ last'.op \in {"toggleCapture", "setActiveTool"}) =>
            (isCapturing' = isCapturing /\ activeTool' = activeTool) ]_vars

\* C19: while a Continuous replay is running, goToNextSlide, goToPrevSlide and
\* addSlide do not change the displayed slide.
C19_NoNavigationWhilePlaying ==
    [][ (isPlaying /\ last'.op \in {"goToNextSlide", "goToPrevSlide", "addSlide"}) =>
            currentSlideIndex' = currentSlideIndex ]_vars

\* a replay loop that is not cancelled waits at delay boundary pc
LiveAt(ls, pc) == \E k \in 1..Len(ls) : ~ls[k].isCancelled /\ ls[k].pc = pc

\* the record a loop waiting at its cursor delay is about to apply
CursorRecord(ls) ==
    LET k == CHOOSE k \in 1..Len(ls) : ~ls[k].isCancelled /\ ls[k].pc = "cursor"
    IN  ls[k].clickSequence[ls[k].step + 1]

\* C20: a replay loop comes to wait at its cursor delay only in a step that
\* sets the cursor to its record and changes no slide; the record's Transform
\* and Spotlight are applied only by the later step in which that delay fires,
\* and that step does not set the cursor.
C20_CursorBeforeState ==
    [][ /\ (~LiveAt(loops, "cursor") /\ LiveAt(loops', "cursor")) =>
              /\ last'.op = "timer" /\ last'.pc # "cursor"
              /\ replayCursor' = [set |-> TRUE, x |-> CursorRecord(loops').x,
                                  y |-> CursorRecord(loops').y,
                                  slideIndex |-> CursorRecord(loops').slideIndex]
              /\ slides' = slides
        /\ (last'.op = "timer" /\ last'.pc = "cursor" /\ ~last'.flag) =>
              /\ LiveAt(loops, "cursor")
              /\ replayCursor' = replayCursor
              /\ LiveAt(loops', "post")
              /\ LET record == CursorRecord(loops) IN
                 /\ slides'[record.slideIndex + 1].transform = record.toolState.transform
                 /\ slides'[record.slideIndex + 1].spotlight = record.toolState.spotlight
        /\ (last'.op = "timer" /\ last'.pc # "cursor") =>
              \/ slides' = slides
              \/ \A j \in 1..Len(slides') :
                    /\ slides'[j].transform = INITIAL_TRANSFORM
                    /\ slides'[j].spotlight = NoSpotlight ]_vars

\* the cursor delay of a zoom record has just fired: the zoom is applied and
\* the cursor is at the record
C20_Witness ==
    /\ last.op = "timer" /\ last.pc = "cursor" /\ ~last.flag
    /\ replayCursor.set
    /\ \E j \in 1..Len(slides) : slides[j].transform # INITIAL_TRANSFORM


\* the replay loop that is not cancelled (the cleanup cancels every older one)
LiveLoop(ls) == ls[CHOOSE k \in 1..Len(ls) : ~ls[k].isCancelled]

\* the index of the record animateStep turns to when the delay pc of l fires
NextStepOf(l, pc) == IF pc = "post" THEN l.step + 1 ELSE l.step

Dist2(a, b) == (a[1] - b[1]) * (a[1] - b[1]) + (a[2] - b[2]) * (a[2] - b[2])

\* the Rect spanned by two positions, whatever the direction of the drag
NormalizedRect(a, b) ==
    [type |-> "rect",
     x |-> IF a[1] <= b[1] THEN a[1] ELSE b[1],
     y |-> IF a[2] <= b[2] THEN a[2] ELSE b[2],
     width |-> IF a[1] <= b[1] THEN b[1] - a[1] ELSE a[1] - b[1],
     height |-> IF a[2] <= b[2] THEN b[2] - a[2] ELSE a[2] - b[2],
     radius |-> 0]

\* C22: a pointer-up at p that ends a Spotlight drag begun at dragStart leaves
\* the slide with a Circle of radius 60 at p when the distance is below 10,
\* and with the normalized Rect between dragStart and p otherwise.
C22_SpotlightCommit ==
    [][ \A p \in DragPoints :
          (/\ MouseUp(p)
           /\ canvas[currentSlideIndex + 1].isDragging
           /\ activeTool = "spotlight") =>
             LET down == canvas[currentSlideIndex + 1].dragStart IN
             slides'[currentSlideIndex + 1].spotlight =
                IF Dist2(down, p) < 10 * 10
                THEN [type |-> "circle", x |-> p[1], y |-> p[2], radius |-> 60,
                      width |-> 0, height |-> 0]
                ELSE NormalizedRect(down, p) ]_vars

\* C22 with neither a Continuous replay nor a capturing Stepped replay active
C22_SpotlightCommitIdle ==
    [][ \A p \in DragPoints :
          (/\ MouseUp(p)
           /\ canvas[currentSlideIndex + 1].isDragging
           /\ activeTool = "spotlight"
           /\ ~isPlaying /\ ~(isStepping /\ isCapturing)) =>
             LET down == canvas[currentSlideIndex + 1].dragStart IN
             slides'[currentSlideIndex + 1].spotlight =
                IF Dist2(down, p) < 10 * 10
                THEN [type |-> "circle", x |-> p[1], y |-> p[2], radius |-> 60,
                      width |-> 0, height |-> 0]
                ELSE NormalizedRect(down, p) ]_vars

\* a drag of exactly the threshold distance (6, 8) has been committed as a Rect
C22_Witness ==
    /\ last.op = "handleMouseUp" /\ last.flag
    /\ slides[1].spotlight.type = "rect"
    /\ slides[1].spotlight.width = 6 /\ slides[1].spotlight.height = 8

\* C23: during a Spotlight drag a pointer-move to p shows the normalized Rect
\* between dragStart and p when the distance is 10 or more, and no Spotlight
\* when it is less.
C23_LivePreview ==
    [][ \A p \in DragPoints :
          (/\ MouseMove(p)
           /\ canvas[currentSlideIndex + 1].isDragging
           /\ activeTool = "spotlight" /\ ~isPlaying) =>
             LET down == canvas[currentSlideIndex + 1].dragStart IN
             slides'[currentSlideIndex + 1].spotlight =
                IF Dist2(down, p) < 10 * 10
                THEN NoSpotlight
                ELSE NormalizedRect(down, p) ]_vars

\* a move below the threshold has just removed the Spotlight while dragging
C23_Witness ==
    /\ last.op = "handleMouseMove" /\ last.flag
    /\ canvas[1].isDragging
    /\ slides[1].spotlight = NoSpotlight


\* a PanZoom tap at p is delivered and passes the guards of handleCanvasClick
PanZoomTap(p) ==
    /\ CanvasClickWithin(p, 1, MaxDeepZoom)
    /\ activeTool = "pan_zoom" /\ ~isPlaying

\* the image-local point under container position p along one axis (origin o
\* and scale s of the Transform before, o2 and s2 after, in 1/Unit) lies at
\* container position q after the zoom:  o2 + ((p - o) / s) * s2 = q
\* (q2 is twice q, so that a midpoint is a whole number)
MapsTo(p, o, s, o2, s2, q2) ==
    2 * o2 * s + 2 * (p * Unit - o) * s2 = q2 * Unit * s

\* the slide's Transform after the zoom is t.scale * 1.5 with the image point
\* under p at the container's midpoint
ZoomedToMidpoint(t, t2, p) ==
    /\ 2 * t2.scale = 3 * t.scale
    /\ MapsTo(p[1], t.x, t.scale, t2.x, t2.scale, ContainerW)
    /\ MapsTo(p[2], t.y, t.scale, t2.y, t2.scale, ContainerH)

\* C24: a PanZoom tap at p on a slide with Transform t leaves that slide with
\* scale t.scale * 1.5, the image point that was under p at the container's
\* midpoint and no Spotlight, and changes no other slide.
C24_TapZooms ==
    [][ \A p \in Points :
          PanZoomTap(p) =>
             LET i == currentSlideIndex IN
             /\ Len(slides') = Len(slides)
             /\ ZoomedToMidpoint(slides[i + 1].transform, slides'[i + 1].transform, p)
             /\ slides'[i + 1].spotlight = NoSpotlight
             /\ \A j \in 1..Len(slides) : j # i + 1 => slides'[j] = slides[j] ]_vars

\* C24 with no capturing Stepped replay active
C24_TapZoomsIdle ==
    [][ \A p \in Points :
          (PanZoomTap(p) /\ ~(isStepping /\ isCapturing)) =>
             LET i == currentSlideIndex IN
             /\ Len(slides') = Len(slides)
             /\ ZoomedToMidpoint(slides[i + 1].transform, slides'[i + 1].transform, p)
             /\ slides'[i + 1].spotlight = NoSpotlight
             /\ \A j \in 1..Len(slides) : j # i + 1 => slides'[j] = slides[j] ]_vars

\* the image point under p keeps its container position through the zoom
PositionKept(t, t2, p) ==
    /\ MapsTo(p[1], t.x, t.scale, t2.x, t2.scale, 2 * p[1])
    /\ MapsTo(p[2], t.y, t.scale, t2.y, t2.scale, 2 * p[2])

IsMidpoint(p) == 2 * p[1] = ContainerW /\ 2 * p[2] = ContainerH

\* C25 as stated: for every Transform and click point, the image point under
\* the click is at the same container position after the zoom.
C25_PositionPreserved ==
    [][ \A p \in Points :
          PanZoomTap(p) =>
             PositionKept(slides[currentSlideIndex + 1].transform,
                          slides'[currentSlideIndex + 1].transform, p) ]_vars

\* C25: the zoom moves the image point under the click to the container's
\* midpoint; the point keeps its container position exactly when the click is
\* at the midpoint, as it always is for a keyboard activation.
C25_RecentresAtMidpoint ==
    [][ /\ \A p \in Points :
             PanZoomTap(p) =>
                LET t == slides[currentSlideIndex + 1].transform
                    t2 == slides'[currentSlideIndex + 1].transform IN
                /\ ZoomedToMidpoint(t, t2, p)
                /\ PositionKept(t, t2, p) <=> IsMidpoint(p)
        /\ \A i \in SlideIndices :
             (/\ KeyboardActivationWithin(i, MaxDeepZoom)
              /\ activeTool = "pan_zoom" /\ ~isPlaying) =>
                PositionKept(slides[i + 1].transform, slides'[i + 1].transform,
                             <<ContainerW \div 2, ContainerH \div 2>>) ]_vars

\* a second zoom, after one that moved the image away from the origin
C25_Witness ==
    /\ last.op = "handleCanvasClick" /\ last.flag /\ activeTool = "pan_zoom"
    /\ LET t == slides[currentSlideIndex + 1].transform IN
       /\ 4 * t.scale = 9 * Unit
       /\ t.x # t.y \/ t.x # (ContainerW * Unit) \div 2

\* C26: a double activation leaves its slide with the identity Transform and
\* no Spotlight and every other slide as it was; while a Continuous replay is
\* running it changes nothing.
C26_DoubleActivationResets ==
    [][ last'.op = "handleDoubleClick" =>
          IF isPlaying
          THEN /\ slides' = slides /\ clickSequence' = clickSequence
               /\ currentSlideIndex' = currentSlideIndex
               /\ isPlaying' /\ loops' = loops /\ replayCursor' = replayCursor
          ELSE LET i == currentSlideIndex IN
               /\ Len(slides') = Len(slides)
               /\ slides'[i + 1].transform = [scale |-> Unit, x |-> 0, y |-> 0]
               /\ slides'[i + 1].spotlight = NoSpotlight
               /\ slides'[i + 1].mediaUrl = slides[i + 1].mediaUrl
               /\ \A j \in 1..Len(slides) : j # i + 1 => slides'[j] = slides[j] ]_vars

\* the displayed slide has been reset while the other one stays zoomed
C26_Witness ==
    /\ last.op = "handleDoubleClick" /\ last.flag
    /\ Len(slides) = 2
    /\ slides[currentSlideIndex + 1].transform = INITIAL_TRANSFORM
    /\ slides[currentSlideIndex + 1].spotlight = NoSpotlight
    /\ \E j \in 1..2 : j # currentSlideIndex + 1 /\ slides[j].transform.scale > Unit


InRange(i) == 0 <= i /\ i < Len(slides)

\* C27: updateSlide with an index outside the slide list, from a direct call
\* or a media attachment, before or after a reset, leaves the slide list as
\* it was.
C27_OutOfRangeNoOp ==
    [][ \A i \in AnyIndex :
          /\ \A updates \in Partials :
                (UpdateSlide(i, updates) /\ ~InRange(i)) => slides' = slides
          /\ (FileForSlide(i, "image") /\ ~InRange(i)) => slides' = slides ]_vars

\* an out-of-range call has been made on a list whose slides hold state
C27_Witness ==
    /\ last.op = "updateSlideState" /\ ~last.flag
    /\ Len(slides) = 2
    /\ slides[1].transform # INITIAL_TRANSFORM
    /\ slides[2].spotlight # NoSpotlight

SlideFields == {"mediaUrl", "mediaType", "transform", "spotlight"}

\* C28: for a valid index updateSlide replaces the fields of the partial and
\* no other field, slide, record or the displayed slide index; attaching
\* media changes no Transform and no Spotlight.
C28_PartialUpdate ==
    [][ \A i \in AnyIndex :
          /\ \A updates \in Partials :
                (UpdateSlide(i, updates) /\ InRange(i)) =>
                   /\ Len(slides') = Len(slides)
                   /\ \A f \in SlideFields :
                         slides'[i + 1][f] = IF f \in DOMAIN updates
                                             THEN updates[f]
                                             ELSE slides[i + 1][f]
                   /\ \A j \in 1..Len(slides) : j # i + 1 => slides'[j] = slides[j]
                   /\ clickSequence' = clickSequence
                   /\ currentSlideIndex' = currentSlideIndex
          /\ (FileForSlide(i, "image") /\ InRange(i)) =>
                /\ Len(slides') = Len(slides)
                /\ slides'[i + 1].mediaUrl = "blob"
                /\ slides'[i + 1].mediaType = "image"
                /\ \A j \in 1..Len(slides) :
                      /\ slides'[j].transform = slides[j].transform
                      /\ slides'[j].spotlight = slides[j].spotlight
                      /\ j # i + 1 => slides'[j] = slides[j]
                /\ clickSequence' = clickSequence
                /\ currentSlideIndex' = currentSlideIndex ]_vars

\* a slide holds the result of three different partial updates
C28_Witness ==
    /\ last.op = "updateSlideState" /\ last.flag
    /\ \E j \in 1..Len(slides) :
          /\ slides[j].transform # INITIAL_TRANSFORM
          /\ slides[j].spotlight # NoSpotlight
          /\ slides[j].mediaType = "video"

\* C29: hasSequence is true exactly when the record sequence is non-empty and
\* neither a Continuous nor a Stepped replay is active.
C29_HasSequence ==
    hasSequence(App) <=> (Len(clickSequence) > 0 /\ ~isPlaying /\ ~isStepping)

\* a reset during Stepped replay, with a timer of a Continuous replay pending
C30_Witness ==
    /\ last.op = "handleFullReset"
    /\ isStepping /\ currentStep > 0
    /\ \E k \in 1..Len(loops) : loops[k].isCancelled

\* C30: a second resetAll right after a resetAll changes nothing.
C30_ResetIdempotent ==
    last.op = "handleFullReset" =>
        /\ Render(App, handleFullReset(App), TRUE) = App
        /\ canvas = <<NewCanvas>>


\* C31: every record of the sequence is on a slide of the slide list.
C31_RecordsOnSlides ==
    \A j \in 1..Len(clickSequence) :
        0 <= clickSequence[j].slideIndex /\ clickSequence[j].slideIndex < Len(slides)

\* records were captured on both slides, the later one on the added slide
C31_Witness ==
    /\ Len(slides) = 2 /\ Len(clickSequence) = 2
    /\ clickSequence[1].slideIndex = 0
    /\ clickSequence[2].slideIndex = 1


\* a committed gesture has appended a record in this step
Appended ==
    /\ last'.op \in CommitOps
    /\ Len(clickSequence') = Len(clickSequence) + 1

\* the slides after a gesture on the displayed slide under the active tool
\* are as the gesture alone sets them
AsGestureSets ==
    LET i == currentSlideIndex IN
    /\ Len(slides') = Len(slides)
    /\ \A j \in 1..Len(slides) : j # i + 1 => slides'[j] = slides[j]
    /\ activeTool = "none" => slides'[i + 1] = slides[i + 1]
    /\ activeTool = "pan_zoom" =>
          /\ 2 * slides'[i + 1].transform.scale = 3 * slides[i + 1].transform.scale
          /\ slides'[i + 1].spotlight = NoSpotlight
    /\ activeTool = "spotlight" =>
          /\ slides'[i + 1].transform = slides[i + 1].transform
          /\ slides'[i + 1].spotlight.type \in {"circle", "rect"}

\* C38: the step in which a committed gesture appends a record leaves the
\* displayed slide index, the replay cursor and the replay flags as they were
\* and the slides as the gesture set them.
C38_AppendOnlyAppends ==
    [][ Appended =>
          /\ currentSlideIndex' = currentSlideIndex
          /\ replayCursor' = replayCursor
          /\ isPlaying' = isPlaying
          /\ isStepping' = isStepping /\ currentStep' = currentStep
          /\ AsGestureSets ]_vars

\* C38 with neither replay mode active and no replay cursor left behind
C38_AppendOnlyAppendsIdle ==
    [][ (Appended /\ ~isPlaying /\ ~isStepping /\ replayCursor = NoCursor) =>
          /\ currentSlideIndex' = currentSlideIndex
          /\ replayCursor' = replayCursor
          /\ isPlaying' = isPlaying
          /\ isStepping' = isStepping /\ currentStep' = currentStep
          /\ AsGestureSets ]_vars


\* C32: a tap under tool None changes no slide's Transform or Spotlight,
\* capture on or off; pointer-down, pointer-move and pointer-up under tool
\* None or PanZoom change no Spotlight.
C32_NoneToolNoEffect ==
    [][ /\ (last'.op = "handleCanvasClick" /\ activeTool = "none") =>
              /\ Len(slides') = Len(slides)
              /\ \A j \in 1..Len(slides) :
                    /\ slides'[j].transform = slides[j].transform
                    /\ slides'[j].spotlight = slides[j].spotlight
        /\ (/\ last'.op \in {"handleMouseDown", "handleMouseMove", "handleMouseUp"}
            /\ activeTool \in {"none", "pan_zoom"}) =>
              /\ Len(slides') = Len(slides)
              /\ \A j \in 1..Len(slides) :
                    slides'[j].spotlight = slides[j].spotlight ]_vars

\* C32 with no capturing Stepped replay active
C32_NoneToolNoEffectIdle ==
    [][ /\ (/\ last'.op = "handleCanvasClick" /\ activeTool = "none"
            /\ ~(isStepping /\ isCapturing)) =>
              /\ Len(slides') = Len(slides)
              /\ \A j \in 1..Len(slides) :
                    /\ slides'[j].transform = slides[j].transform
                    /\ slides'[j].spotlight = slides[j].spotlight
        /\ (/\ last'.op \in {"handleMouseDown", "handleMouseMove", "handleMouseUp"}
            /\ activeTool \in {"none", "pan_zoom"}) =>
              /\ Len(slides') = Len(slides)
              /\ \A j \in 1..Len(slides) :
                    slides'[j].spotlight = slides[j].spotlight ]_vars


\* the session state, without the pending timers
Session ==
    <<activeTool, isCapturing, slides, currentSlideIndex, clickSequence,
      isPlaying, isStepping, currentStep, replayCursor>>

\* C34: when a delay of a cancelled replay loop fires, the session state does
\* not change; in particular isPlaying stays on for the loop started after it.
C34_CancelledLoopInert ==
    [][ (last'.op = "timer" /\ last'.flag) => Session' = Session ]_vars

\* C34 for every delay of a cancelled loop other than its first (settle) one
C34_CancelledLoopInertAfterSettle ==
    [][ (last'.op = "timer" /\ last'.flag /\ last'.pc # "settle") =>
            Session' = Session ]_vars


\* the replay loops that are not cancelled
LiveLoops == { k \in 1..Len(loops) : ~loops[k].isCancelled }

Restarted == LiveAt(loops', "settle") /\ ~LiveAt(loops, "settle")

\* the index of the record the running replay is at does not go back
StepKept ==
    (LiveLoops # {} /\ LiveLoops' # {}) =>
        LiveLoop(loops').step >= LiveLoop(loops).step

\* C33: while a Continuous replay runs, a step of the replay itself (a delay
\* that fires) neither takes the replay back to an earlier record nor starts
\* it again with a reset of the slides.
C33_ReplayAdvances ==
    [][ (last'.op = "timer" /\ isPlaying /\ isPlaying') =>
            (StepKept /\ ~Restarted) ]_vars

\* C33 for a replay whose records are all on the displayed slide
C33_ReplayAdvancesOnOneSlide ==
    [][ (/\ last'.op = "timer" /\ isPlaying /\ isPlaying'
         /\ \A j \in 1..Len(clickSequence) :
               clickSequence[j].slideIndex = currentSlideIndex) =>
            (StepKept /\ ~Restarted) ]_vars


\* C36: while Stepped replay is active the sequence is non-empty and
\* currentStep is the index of one of its records.
C36_StepInRange ==
    isStepping =>
        /\ Len(clickSequence) > 0
        /\ 0 <= currentStep /\ currentStep <= Len(clickSequence) - 1

\* C37: there is at least one slide and the displayed slide is one of them.
C37_DisplayedSlideValid ==
    /\ Len(slides) >= 1
    /\ 0 <= currentSlideIndex /\ currentSlideIndex < Len(slides)

\* next-slide was requested and the last of two slides is displayed
C37_Witness ==
    /\ last.op = "goToNextSlide" /\ last.flag
    /\ Len(slides) = 2 /\ currentSlideIndex = 1
    /\ Len(clickSequence) > 0


\* the record appended in this step
NewRecord == clickSequence'[Len(clickSequence')]

Grew == Len(clickSequence') = Len(clickSequence) + 1

\* C39: the record a gesture appends carries the index of the slide whose
\* Canvas received the gesture, for a tap on the displayed slide and for a
\* keyboard activation of the Canvas of any slide.
C39_RecordOnGestureSlide ==
    [][ /\ (last'.op = "handleCanvasClick" /\ Grew) =>
              NewRecord.slideIndex = currentSlideIndex
        /\ \A i \in SlideIndices :
              (KeyboardActivation(i) /\ Grew) => NewRecord.slideIndex = i ]_vars

\* C39 for gestures on the Canvas of the displayed slide
C39_RecordOnDisplayedSlide ==
    [][ /\ (last'.op = "handleCanvasClick" /\ Grew) =>
              NewRecord.slideIndex = currentSlideIndex
        /\ (KeyboardActivation(currentSlideIndex) /\ Grew) =>
              NewRecord.slideIndex = currentSlideIndex ]_vars


\* C40: a slide on which no Spotlight drag is in progress holds no Spotlight
\* or one that a committed pointer-up produced (and a replay step may have
\* applied again).  Under PreviewSpec every commit is the circle at (0,0), so
\* any other value is what a live preview left behind.
C40_NoPreviewResidue ==
    \A j \in 1..Len(slides) :
        ~canvas[j].isDragging =>
            slides[j].spotlight \in
                { NoSpotlight,
                  [type |-> "circle", x |-> 0, y |-> 0, radius |-> 60,
                   width |-> 0, height |-> 0] }

=============================================================================
